---- MODULE Spec2Model ----
(***************************************************************************)
(* Seat reservation engine of the event booking API.                       *)
(*                                                                         *)
(* One event row (seat_count, available_seats, version) and the bookings   *)
(* table live in a transactional store.  Every request runs book_seats or  *)
(* cancel_booking in its own session; each awaited statement is one step.  *)
(* Statements read the last committed rows, an UPDATE of the event row     *)
(* takes the row lock until the request's transaction commits or rolls     *)
(* back, and a waiting UPDATE re-evaluates its WHERE clause on the row as   *)
(* committed.                                                              *)
(*                                                                         *)
(* Around the engine: the cache of event listings in the cache store, which *)
(* the booking endpoints invalidate after a successful call, and the        *)
(* admission strategies (admit, release, sync) over two counters of the     *)
(* counter store.                                                           *)
(*                                                                         *)
(* Beside the API, the in-memory booking systems of the experiments: the   *)
(* unlocked mock, the queue with its single worker, and the simulated      *)
(* admission control; each suspension point of a coroutine ends a step.    *)
(***************************************************************************)
EXTENDS Integers, Sequences, FiniteSets, TLC

\* ---------------------------------------------------------------- bounds
NumProcs == 3            \* request slots of the full specification
NumRequesters == 5       \* concurrent requesters of the sell-out scenario
NumContenders == 4       \* concurrent requesters of the retry scenario
NumUsers == 2            \* owners of the full specification
MaxSeats == 2            \* largest seat_count of the event
MaxQty == 2              \* largest seat_count of one booking request
NumWriters == 2          \* booking and cancellation requests of the cache scenario
NumListers == 1          \* listing requests of the cache scenario
NumGated == 2            \* callers of the admission scenarios
NumSimUsers == 4         \* concurrent callers of the simulated booking systems
MaxSimSeats == 5         \* largest total_seats of the simulated booking systems

\* ------------------------------------------------------ program constants
MAX_RETRY_ATTEMPTS == 3

Procs == 1..NumProcs
Requesters == 1..NumRequesters
Contenders == 1..NumContenders
Max(a, b) == IF a > b THEN a ELSE b
AllProcs == 1..Max(NumProcs, Max(NumRequesters, NumContenders))
Users == 1..NumUsers
Writers == 1..NumWriters
Listers == 1..NumListers
Gated == 1..NumGated
SimUsers == 1..NumSimUsers
\* Listing pages that can be cached: events:list:page=1.. and page=2..
Pages == {1, 2}

VARIABLES
  event,            \* committed events row: seat_count, available_seats, version
  bookings,         \* committed bookings table, indexed by id
  lock,             \* holder of the event row lock (0: nobody)
  tx_event,         \* per request: its uncommitted events row
  tx_insert,        \* per request: its uncommitted INSERT into bookings
  tx_cancel,        \* per request: id of the booking it set to cancelled, uncommitted
  pc,               \* per request: position in its handler
  req,              \* per request: kind, user_id, seat_count, booking_id
  attempt,          \* per request: loop variable of book_seats
  seen_seats,       \* per request: event.available_seats as read in this attempt
  current_version,  \* per request: event.version as read in this attempt
  n_updates,        \* per request: conditional UPDATE statements executed
  booking_id,       \* per request: id of the booking it created
  result,           \* per request: outcome returned to the caller
  cache,            \* cache store: per page, the cached available_seats or NoEntry
  cache_up,         \* the cache store is enabled and reachable
  keys_deleted,     \* per request: keys deleted by its invalidation pass
  list_pc,          \* per listing request: position in list_events_endpoint
  list_key,         \* per listing request: the page it asked for
  list_data,        \* per listing request: available_seats in its response
  strategy,         \* configured admission strategy: "redis" or "optimistic"
  redis_up,         \* the counter store is reachable
  seats_key,        \* counter store: seats:{event_id}
  reserved_key,     \* counter store: reserved:{event_id}
  admitted,         \* per caller: what admit returned ("none", "yes", "no")
  released,         \* per caller: it has called release
  total_seats,      \* simulations: total_seats passed to the constructor
  available_seats,  \* simulations: available_seats of the in-memory event
  reserved_seats,   \* AdmissionControlBooking.reserved_seats
  queue,            \* QueueBasedBookingSystem.queue, oldest item first
  submitted,        \* history: user_ids in the order of their queue.put
  worker_item,      \* user_id the worker took from the queue (0: it waits in get)
  db_operations,    \* QueueBasedBookingSystem.db_operations
  result_future,    \* per caller: its Future ("none", "pending", "true", "false")
  sim_pc,           \* per caller: position in book_seat / book_seat_broken
  current_seats,    \* per caller: available_seats as read by book_seat_broken
  returned,         \* per caller: what its call returned ("none", "true", "false")
  successful,       \* successful bookings counted by the simulation
  conflicts,        \* conflicts counted by the simulation
  rejected          \* AdmissionControlBooking.rejected

cacheVars == <<cache, cache_up, keys_deleted, list_pc, list_key, list_data>>
gateVars == <<strategy, redis_up, seats_key, reserved_key, admitted, released>>
simVars == <<total_seats, available_seats, reserved_seats, queue, submitted,
             worker_item, db_operations, result_future, sim_pc, current_seats,
             returned, successful, conflicts, rejected>>

vars == <<event, bookings, lock, tx_event, tx_insert, tx_cancel, pc, req,
          attempt, seen_seats, current_version, n_updates, booking_id, result,
          cacheVars, gateVars, simVars>>

NoRow == [seat_count |-> 0, available_seats |-> 0, version |-> 0]
NoBooking == [user_id |-> 0, seat_count |-> 0, status |-> "none"]
NoReq == [kind |-> "none", user_id |-> 0, seat_count |-> 0, booking_id |-> 0]
\* client.get(key) found nothing under the key.
NoEntry == -1

\* ------------------------------------------------------------ the store
\* Mutant: the new event starts with no seat on sale.
NewEventNoneAvailable(n) == [seat_count |-> n, available_seats |-> 0, version |-> 1]

\* Event(seat_count = n, available_seats = n), version defaulting to 1.
NewEvent(n) == [seat_count |-> n, available_seats |-> n, version |-> 1]

\* CHECK constraints of the events table.
CheckConstraints(row) ==
  /\ row.available_seats >= 0
  /\ row.seat_count > 0
  /\ row.available_seats <= row.seat_count

\* Mutant: the table without its uniqueness constraint.
UniqueViolationNone(bks, user) == FALSE

\* UNIQUE (user_id, event_id) of the bookings table: a row of any status counts.
UniqueViolation(bks, user) ==
  \E i \in 1..Len(bks) : bks[i].user_id = user

\* ----------------------------------------------------------- book_seats
\* Mutant: the pre-check without the status filter.
ExistingAnyStatus(bks, user) ==
  \E i \in 1..Len(bks) : bks[i].user_id = user

\* select(Booking).where(user_id, event_id, status == "confirmed")
ExistingConfirmed(bks, user) ==
  \E i \in 1..Len(bks) : bks[i].user_id = user /\ bks[i].status = "confirmed"

\* Mutant: without the rollback that expires the session's Event object, a
\* later attempt gets the object as it was first loaded.
SelectEventUnexpired(row, loaded, a) ==
  IF a = 1 THEN row
  ELSE [row EXCEPT !.available_seats = loaded.available_seats,
                   !.version = loaded.version]

\* select(Event).where(Event.id == event_id) of attempt a: the committed row.
\* The session's Event object, loaded by an earlier attempt, was expired by
\* `await db.rollback()` and is populated again from the row.
SelectEvent(row, loaded, a) == row

\* Mutant: only an event with no seat left is rejected.
NotEnoughSeatsSoldOut(row, q) == row.available_seats <= 0

\* if event.available_seats < seat_count: raise 409
NotEnoughSeats(row, q) == row.available_seats < q

\* Mutant: the WHERE clause asks for more seats than the request takes.
UpdateWhereSpareSeat(row, cv, q) == row.version = cv /\ row.available_seats > q

\* Mutant: the WHERE clause without the version comparison.
UpdateWhereNoVersion(row, cv, q) == row.available_seats >= q

\* WHERE Event.version == current_version AND Event.available_seats >= seat_count
UpdateWhere(row, cv, q) == row.version = cv /\ row.available_seats >= q

\* Mutant: one seat taken whatever the requested seat_count.
UpdateValuesOneSeat(row, q) ==
  [row EXCEPT !.available_seats = @ - 1, !.version = @ + 1]

\* Mutant: the version bumped, the seats left as they were.
UpdateValuesNoSeats(row, q) == [row EXCEPT !.version = @ + 1]

\* .values(available_seats = available_seats - seat_count, version = version + 1)
UpdateValues(row, q) ==
  [row EXCEPT !.available_seats = @ - q, !.version = @ + 1]

\* Mutant: the call gives up one attempt early.
LastAttemptEarly(a) == a >= MAX_RETRY_ATTEMPTS - 1

\* Mutant: the call goes on to one attempt more.
LastAttemptLate(a) == a = MAX_RETRY_ATTEMPTS + 1

\* if attempt == MAX_RETRY_ATTEMPTS: raise 409
LastAttempt(a) == a = MAX_RETRY_ATTEMPTS

\* Mutant: the record is created already cancelled.
NewBookingCancelled(user, q) ==
  [user_id |-> user, seat_count |-> q, status |-> "cancelled"]

\* Mutant: seat_count left to the column default of 1.
NewBookingDefaultSeats(user, q) ==
  [user_id |-> user, seat_count |-> 1, status |-> "confirmed"]

\* Booking(user_id, event_id, seat_count, status="confirmed")
NewBooking(user, q) == [user_id |-> user, seat_count |-> q, status |-> "confirmed"]

\* ------------------------------------------------------- cancel_booking
\* Mutant: the lookup by id alone, whoever owns the booking.
FindBookingAnyOwner(bks, id, user) ==
  IF id \in 1..Len(bks) THEN bks[id] ELSE NoBooking

\* select(Booking).where(Booking.id == booking_id, Booking.user_id == user_id)
FindBooking(bks, id, user) ==
  IF id \in 1..Len(bks) /\ bks[id].user_id = user THEN bks[id] ELSE NoBooking

\* Mutant: one seat restored whatever the booking's seat_count.
RestoreValuesOneSeat(row, q) ==
  [row EXCEPT !.available_seats = @ + 1, !.version = @ + 1]

\* Mutant: the seats restored, the version left as it was.
RestoreValuesNoVersion(row, q) == [row EXCEPT !.available_seats = @ + q]

\* .values(available_seats = available_seats + seat_count, version = version + 1)
RestoreValues(row, q) ==
  [row EXCEPT !.available_seats = @ + q, !.version = @ + 1]

\* --------------------------------------------------------- transactions
\* Session rollback: the uncommitted rows are dropped and the row lock released.
Rollback(p) ==
  /\ tx_event' = [tx_event EXCEPT ![p] = NoRow]
  /\ tx_insert' = [tx_insert EXCEPT ![p] = NoBooking]
  /\ tx_cancel' = [tx_cancel EXCEPT ![p] = 0]
  /\ lock' = IF lock = p THEN 0 ELSE lock

\* The request ends with outcome r.
Finish(p, r) ==
  /\ pc' = [pc EXCEPT ![p] = "done"]
  /\ result' = [result EXCEPT ![p] = r]

\* ---------------------------------------------------------------- Init
IdleProcs ==
  /\ lock = 0
  /\ tx_event = [p \in AllProcs |-> NoRow]
  /\ tx_insert = [p \in AllProcs |-> NoBooking]
  /\ tx_cancel = [p \in AllProcs |-> 0]
  /\ attempt = [p \in AllProcs |-> 0]
  /\ seen_seats = [p \in AllProcs |-> 0]
  /\ current_version = [p \in AllProcs |-> 0]
  /\ n_updates = [p \in AllProcs |-> 0]
  /\ booking_id = [p \in AllProcs |-> 0]
  /\ result = [p \in AllProcs |-> "none"]
  /\ keys_deleted = [p \in AllProcs |-> 0]

\* No listing cached or running; the cache store up.
ColdCache ==
  /\ cache = [k \in Pages |-> NoEntry]
  /\ cache_up = TRUE
  /\ list_pc = [l \in Listers |-> "idle"]
  /\ list_key = [l \in Listers |-> 0]
  /\ list_data = [l \in Listers |-> NoEntry]

\* No simulated booking system has been constructed.
NoSimulation ==
  /\ total_seats = 0
  /\ available_seats = 0
  /\ reserved_seats = 0
  /\ queue = <<>>
  /\ submitted = <<>>
  /\ worker_item = 0
  /\ db_operations = 0
  /\ result_future = [u \in SimUsers |-> "none"]
  /\ sim_pc = [u \in SimUsers |-> "idle"]
  /\ current_seats = [u \in SimUsers |-> 0]
  /\ returned = [u \in SimUsers |-> "none"]
  /\ successful = 0
  /\ conflicts = 0
  /\ rejected = 0

\* The default strategy (ADMISSION_STRATEGY unset), nobody at the gate.
NoGate ==
  /\ strategy = "optimistic"
  /\ redis_up = TRUE
  /\ seats_key = 0
  /\ reserved_key = 0
  /\ admitted = [p \in AllProcs |-> "none"]
  /\ released = [p \in AllProcs |-> FALSE]

Init ==
  /\ \E n \in 1..MaxSeats : event = NewEvent(n)
  /\ bookings = <<>>
  /\ IdleProcs
  /\ NoSimulation
  /\ pc = [p \in AllProcs |-> "idle"]
  /\ req = [p \in AllProcs |-> NoReq]
  /\ ColdCache
  /\ NoGate

\* ------------------------------------------------------------- requests
RECURSIVE ConfirmedSeats(_)
\* Sum of seat_count over the confirmed bookings of the table.
ConfirmedSeats(bks) ==
  IF bks = <<>> THEN 0
  ELSE ConfirmedSeats(SubSeq(bks, 1, Len(bks) - 1))
       + (IF bks[Len(bks)].status = "confirmed" THEN bks[Len(bks)].seat_count ELSE 0)

\* Requests are numbered in their order of arrival.
Arrives(p) ==
  /\ pc[p] = "idle"
  /\ p > 1 => pc[p - 1] # "idle"

\* POST /bookings (seat_count validated by BookingCreate, gt = 0) by one of the
\* owners us for one of the quantities qs runs book_seats up to its first
\* statement: the duplicate pre-check, then entry into the retry loop.
BookArrives(p, us, qs) ==
  /\ Arrives(p)
  /\ \E u \in us, q \in qs :
       /\ req' = [req EXCEPT ![p] = [kind |-> "book", user_id |-> u,
                                    seat_count |-> q, booking_id |-> 0]]
       /\ IF ExistingConfirmed(bookings, u)
            THEN /\ Finish(p, "duplicate")
                 /\ UNCHANGED attempt
            ELSE /\ pc' = [pc EXCEPT ![p] = "read"]
                 /\ attempt' = [attempt EXCEPT ![p] = 1]
                 /\ UNCHANGED result
  /\ UNCHANGED <<cacheVars, gateVars,
                 event, bookings, lock, tx_event, tx_insert, tx_cancel,
                 seen_seats, current_version, n_updates, booking_id, simVars>>

\* Owners are numbered in their order of first appearance: a request comes
\* from an owner seen before, in a request or as the holder of a booking, or
\* from the next new one.
Owners ==
  {u \in Users : \/ u = 1
                 \/ \E p \in AllProcs : req[p].user_id >= u - 1
                 \/ \E i \in 1..Len(bookings) : bookings[i].user_id >= u - 1}

\* A booking request of any owner for any quantity.
BookCheckExisting(p) ==
  /\ p \in Procs
  /\ BookArrives(p, Owners, 1..MaxQty)

\* The p-th requester of the sell-out scenario: owner p asks for one seat.
SellOutCheckExisting(p) ==
  /\ p \in Requesters
  /\ BookArrives(p, {p}, {1})

\* The p-th requester of the retry scenario: owner p asks for one seat.
ContenderCheckExisting(p) ==
  /\ p \in Contenders
  /\ BookArrives(p, {p}, {1})

\* The p-th caller of the progress scenario: owner p asks for any quantity.
ProgressCheckExisting(p) ==
  /\ p \in Procs
  /\ BookArrives(p, {p}, 1..MaxQty)

\* A booking request for an event_id that is not in the events table: the
\* pre-check finds no booking, the first read finds no event and the call
\* ends as not-found.  Neither statement depends on or changes a row of the
\* event modelled here, so the two are one step.
BookMissingEvent(p) ==
  /\ p \in Procs
  /\ Arrives(p)
  /\ \E u \in Owners, q \in 1..MaxQty :
       req' = [req EXCEPT ![p] = [kind |-> "book", user_id |-> u,
                                 seat_count |-> q, booking_id |-> 0]]
  /\ Finish(p, "not_found")
  /\ UNCHANGED <<cacheVars, gateVars,
                 event, bookings, lock, tx_event, tx_insert, tx_cancel, attempt,
                 seen_seats, current_version, n_updates, booking_id, simVars>>

\* book_seats step 1: read the event, reject when it has too few seats.
BookRead(p) ==
  /\ pc[p] = "read"
  /\ LET loaded == [available_seats |-> seen_seats[p],
                    version |-> current_version[p]]
         row == SelectEvent(event, loaded, attempt[p])
     IN  /\ seen_seats' = [seen_seats EXCEPT ![p] = row.available_seats]
         /\ current_version' = [current_version EXCEPT ![p] = row.version]
         /\ IF NotEnoughSeats(row, req[p].seat_count)
              THEN Finish(p, "insufficient")
              ELSE /\ pc' = [pc EXCEPT ![p] = "update"]
                   /\ UNCHANGED result
  /\ UNCHANGED <<cacheVars, gateVars,
                 event, bookings, lock, tx_event, tx_insert, tx_cancel, req,
                 attempt, n_updates, booking_id, simVars>>

\* book_seats step 2: the conditional UPDATE, which waits for the row lock
\* when its WHERE clause matches; the store refuses a row that breaks a CHECK
\* constraint.  On rowcount 0 roll back and retry, or give up on the last
\* attempt; a loop that runs out of attempts without giving up falls through
\* to the "Booking failed unexpectedly" error.
BookUpdate(p) ==
  /\ pc[p] = "update"
  /\ n_updates' = [n_updates EXCEPT ![p] = @ + 1]
  /\ IF UpdateWhere(event, current_version[p], req[p].seat_count)
       THEN /\ lock = 0
            /\ IF CheckConstraints(UpdateValues(event, req[p].seat_count))
                 THEN /\ lock' = p
                      /\ tx_event' = [tx_event EXCEPT ![p] =
                                        UpdateValues(event, req[p].seat_count)]
                      /\ pc' = [pc EXCEPT ![p] = "insert"]
                      /\ UNCHANGED <<tx_insert, tx_cancel, result>>
                 ELSE /\ Rollback(p)
                      /\ Finish(p, "check_violation")
            /\ UNCHANGED attempt
       ELSE /\ Rollback(p)
            /\ IF LastAttempt(attempt[p])
                 THEN /\ Finish(p, "contention")
                      /\ UNCHANGED attempt
                 ELSE IF attempt[p] < MAX_RETRY_ATTEMPTS
                   THEN /\ attempt' = [attempt EXCEPT ![p] = @ + 1]
                        /\ pc' = [pc EXCEPT ![p] = "read"]
                        /\ UNCHANGED result
                   ELSE /\ Finish(p, "unexpected")
                        /\ UNCHANGED attempt
  /\ UNCHANGED <<cacheVars, gateVars,
                 event, bookings, req, seen_seats, current_version, booking_id,
                 simVars>>

\* book_seats step 3: INSERT the booking; a unique violation fails the request
\* and its transaction is rolled back.
BookInsert(p) ==
  /\ pc[p] = "insert"
  /\ IF UniqueViolation(bookings, req[p].user_id)
       THEN /\ Rollback(p)
            /\ Finish(p, "integrity_error")
            /\ UNCHANGED booking_id
       ELSE /\ tx_insert' = [tx_insert EXCEPT ![p] =
                               NewBooking(req[p].user_id, req[p].seat_count)]
            /\ booking_id' = [booking_id EXCEPT ![p] = Len(bookings) + 1]
            /\ pc' = [pc EXCEPT ![p] = "invalidate"]
            /\ UNCHANGED <<lock, tx_event, tx_cancel, result>>
  /\ UNCHANGED <<cacheVars, gateVars,
                 event, bookings, req, attempt, seen_seats, current_version, n_updates,
                 simVars>>

\* --------------------------------------------------------- cache_service
\* Mutant: the pass stops after the first key it finds.
InvalidateFirstKey(up, c) ==
  IF up /\ \E k \in Pages : c[k] # NoEntry
    THEN LET first == CHOOSE k \in Pages :
                        c[k] # NoEntry /\ \A j \in Pages : c[j] # NoEntry => k <= j
         IN  [c EXCEPT ![first] = NoEntry]
    ELSE c

\* invalidate_event_cache: delete every key matching "events:list:*"; with
\* the cache store disabled or failing, return without deleting.
InvalidateEventCache(up, c) ==
  IF up THEN [k \in Pages |-> NoEntry] ELSE c

\* The endpoint, after book_seats or cancel_booking has returned: `await
\* invalidate_event_cache()`.  The pass is one step: a key set while it runs
\* counts as set after it.
Invalidate(p) ==
  /\ pc[p] = "invalidate"
  /\ cache' = InvalidateEventCache(cache_up, cache)
  /\ keys_deleted' = [keys_deleted EXCEPT ![p] =
                        Cardinality({k \in Pages : cache[k] # cache'[k]})]
  /\ pc' = [pc EXCEPT ![p] = "commit"]
  /\ UNCHANGED <<event, bookings, lock, tx_event, tx_insert, tx_cancel, req,
                 attempt, seen_seats, current_version, n_updates, booking_id,
                 result, cache_up, list_pc, list_key, list_data, gateVars,
                 simVars>>

\* The session commits when the handler has returned: the request's rows
\* become the committed rows and the row lock is released.
Commit(p) ==
  /\ pc[p] = "commit"
  /\ event' = tx_event[p]
  /\ bookings' =
       IF req[p].kind = "book"
         THEN Append(bookings, tx_insert[p])
         ELSE [bookings EXCEPT ![tx_cancel[p]].status = "cancelled"]
  /\ Rollback(p)
  /\ Finish(p, IF req[p].kind = "book" THEN "success" ELSE "cancelled")
  /\ UNCHANGED <<cacheVars, gateVars,
                 req, attempt, seen_seats, current_version, n_updates, booking_id,
                 simVars>>

\* DELETE /bookings/{booking_id} runs cancel_booking up to its first
\* statement: find the caller's booking, reject a missing or cancelled one.
CancelRead(p) ==
  /\ p \in Procs
  /\ Arrives(p)
  /\ \E u \in Owners, id \in 1..(Len(bookings) + 1) :
       LET b == FindBooking(bookings, id, u) IN
         IF b = NoBooking
           THEN /\ Finish(p, "not_found")
                /\ req' = [req EXCEPT ![p] = [kind |-> "cancel", user_id |-> u,
                                             seat_count |-> 0, booking_id |-> id]]
           ELSE IF b.status = "cancelled"
             THEN /\ Finish(p, "already_cancelled")
                  /\ req' = [req EXCEPT ![p] = [kind |-> "cancel", user_id |-> u,
                                               seat_count |-> 0, booking_id |-> id]]
             ELSE /\ req' = [req EXCEPT ![p] = [kind |-> "cancel", user_id |-> u,
                                               seat_count |-> b.seat_count,
                                               booking_id |-> id]]
                  /\ pc' = [pc EXCEPT ![p] = "c_restore"]
                  /\ UNCHANGED result
  /\ UNCHANGED <<cacheVars, gateVars,
                 event, bookings, lock, tx_event, tx_insert, tx_cancel, attempt,
                 seen_seats, current_version, n_updates, booking_id, simVars>>

\* cancel_booking: the restoring UPDATE; the store refuses a row that breaks
\* a CHECK constraint and the request fails.
CancelRestore(p) ==
  /\ pc[p] = "c_restore"
  /\ lock = 0
  /\ IF CheckConstraints(RestoreValues(event, req[p].seat_count))
       THEN /\ lock' = p
            /\ tx_event' = [tx_event EXCEPT ![p] = RestoreValues(event, req[p].seat_count)]
            /\ pc' = [pc EXCEPT ![p] = "c_flush"]
            /\ UNCHANGED <<tx_insert, tx_cancel, result>>
       ELSE /\ Rollback(p)
            /\ Finish(p, "check_violation")
  /\ UNCHANGED <<cacheVars, gateVars,
                 event, bookings, req, attempt, seen_seats, current_version,
                 n_updates, booking_id, simVars>>

\* cancel_booking: booking.status = "cancelled", flushed.
CancelFlush(p) ==
  /\ pc[p] = "c_flush"
  /\ tx_cancel' = [tx_cancel EXCEPT ![p] = req[p].booking_id]
  /\ pc' = [pc EXCEPT ![p] = "invalidate"]
  /\ UNCHANGED <<cacheVars, gateVars,
                 event, bookings, lock, tx_event, tx_insert, req, attempt,
                 seen_seats, current_version, n_updates, booking_id, result,
                 simVars>>

BookStep(p) ==
  \/ BookCheckExisting(p)
  \/ BookRead(p)
  \/ BookUpdate(p)
  \/ BookInsert(p)
  \/ Invalidate(p)
  \/ Commit(p)

CancelStep(p) ==
  \/ CancelRead(p)
  \/ CancelRestore(p)
  \/ CancelFlush(p)

Next ==
  \E p \in AllProcs :
    \/ BookStep(p)
    \/ CancelStep(p)

Spec == Init /\ [][Next]_vars

\* An event some of whose seats are already booked: owner i holds the i-th
\* booking, made by a book_seats call that committed before the requests of
\* this scenario arrive.
InitBooked ==
  /\ \E n \in 1..MaxSeats, k \in 0..NumUsers :
       \E qs \in [1..k -> 1..MaxQty] :
         LET bks == [i \in 1..k |-> NewBooking(i, qs[i])] IN
           /\ ConfirmedSeats(bks) <= n
           /\ bookings = bks
           /\ event = [seat_count |-> n,
                       available_seats |-> n - ConfirmedSeats(bks),
                       version |-> 1 + k]
  /\ IdleProcs
  /\ NoSimulation
  /\ pc = [p \in AllProcs |-> "idle"]
  /\ req = [p \in AllProcs |-> NoReq]
  /\ ColdCache
  /\ NoGate

\* Bookings and cancellations arriving at an event in any state of sale.
SpecBooked == InitBooked /\ [][Next]_vars

\* Reservations only: any number of book_seats calls, no cancellation.
NextBook == \E p \in AllProcs : BookStep(p)

SpecBook == Init /\ [][NextBook]_vars

\* ---------------------------------------------------- the cache scenario
coreVars == <<event, bookings, lock, tx_event, tx_insert, tx_cancel, pc, req,
              attempt, seen_seats, current_version, n_updates, booking_id, result>>

\* Mutant: the entry is served although the cache call raised.
GetCachedEventsDespiteFailure(up, c, k) == c[k]

\* get_cached_events: the entry under the key; None when the cache store is
\* disabled, the call raises or nothing is under the key.
GetCachedEvents(up, c, k) == IF up THEN c[k] ELSE NoEntry

\* set_cached_events: setex of the response under the key; with the cache
\* store disabled or failing, return without storing.
SetCachedEvents(up, c, k, data) == IF up THEN [c EXCEPT ![k] = data] ELSE c

\* Listing requests are numbered in their order of arrival.
\* GET /events: get_cached_events; a hit is returned as it is.
ListGet(l) ==
  /\ list_pc[l] = "idle"
  /\ l > 1 => list_pc[l - 1] # "idle"
  /\ \E k \in Pages :
       /\ list_key' = [list_key EXCEPT ![l] = k]
       /\ IF GetCachedEvents(cache_up, cache, k) # NoEntry
            THEN /\ list_pc' = [list_pc EXCEPT ![l] = "hit"]
                 /\ list_data' = [list_data EXCEPT ![l] =
                                    GetCachedEvents(cache_up, cache, k)]
            ELSE /\ list_pc' = [list_pc EXCEPT ![l] = "query"]
                 /\ UNCHANGED list_data
  /\ UNCHANGED <<coreVars, cache, cache_up, keys_deleted, gateVars, simVars>>

\* Cache miss: list_events reads the committed rows.
ListQuery(l) ==
  /\ list_pc[l] = "query"
  /\ list_data' = [list_data EXCEPT ![l] = event.available_seats]
  /\ list_pc' = [list_pc EXCEPT ![l] = "set"]
  /\ UNCHANGED <<coreVars, cache, cache_up, keys_deleted, list_key, gateVars,
                 simVars>>

\* set_cached_events (setex), skipped or failing without effect when the
\* cache store is down; the response is returned.
ListSet(l) ==
  /\ list_pc[l] = "set"
  /\ cache' = SetCachedEvents(cache_up, cache, list_key[l], list_data[l])
  /\ list_pc' = [list_pc EXCEPT ![l] = "miss"]
  /\ UNCHANGED <<coreVars, cache_up, keys_deleted, list_key, list_data, gateVars,
                 simVars>>

\* The TTL of a cached listing (REDIS_CACHE_TTL) runs out.
CacheExpire(k) ==
  /\ cache[k] # NoEntry
  /\ cache' = [cache EXCEPT ![k] = NoEntry]
  /\ UNCHANGED <<coreVars, cache_up, keys_deleted, list_pc, list_key, list_data,
                 gateVars, simVars>>

\* The cache store becomes unreachable: every cache call raises.
CacheStoreFails ==
  /\ cache_up
  /\ cache_up' = FALSE
  /\ UNCHANGED <<coreVars, cache, keys_deleted, list_pc, list_key, list_data,
                 gateVars, simVars>>

CacheStoreRecovers ==
  /\ ~cache_up
  /\ cache_up' = TRUE
  /\ UNCHANGED <<coreVars, cache, keys_deleted, list_pc, list_key, list_data,
                 gateVars, simVars>>

ListStep(l) ==
  \/ ListGet(l)
  \/ ListQuery(l)
  \/ ListSet(l)

\* Listings that ran before the first booking left any of the pages cached.
InitCache ==
  /\ \E n \in 1..MaxSeats : event = NewEvent(n)
  /\ bookings = <<>>
  /\ IdleProcs
  /\ NoSimulation
  /\ pc = [p \in AllProcs |-> "idle"]
  /\ req = [p \in AllProcs |-> NoReq]
  /\ cache \in [Pages -> {NoEntry, event.available_seats}]
  /\ cache_up = TRUE
  /\ list_pc = [l \in Listers |-> "idle"]
  /\ list_key = [l \in Listers |-> 0]
  /\ list_data = [l \in Listers |-> NoEntry]
  /\ NoGate

NextCache ==
  \/ \E p \in Writers : BookStep(p) \/ CancelStep(p)
  \/ \E l \in Listers : ListStep(l)
  \/ \E k \in Pages : CacheExpire(k)
  \/ CacheStoreFails
  \/ CacheStoreRecovers

SpecCache == InitCache /\ [][NextCache]_vars

\* Mutant: the single read is answered from a cached listing when there is one.
GetEventCached(row, c) ==
  IF \E k \in Pages : c[k] # NoEntry
    THEN [row EXCEPT !.available_seats =
                       c[CHOOSE k \in Pages : c[k] # NoEntry]]
    ELSE row

\* get_event: select(Event).where(Event.id == event_id), the committed row;
\* the cache is not consulted.
GetEvent(row, c) == row

\* GET /events/{event_id}: get_event and nothing else; the response carries
\* the row's available_seats.
GetEventEndpoint(l) ==
  /\ list_pc[l] = "idle"
  /\ l > 1 => list_pc[l - 1] # "idle"
  /\ list_pc' = [list_pc EXCEPT ![l] = "single"]
  /\ list_data' = [list_data EXCEPT ![l] = GetEvent(event, cache).available_seats]
  /\ UNCHANGED <<coreVars, cache, cache_up, keys_deleted, list_key, gateVars,
                 simVars>>

\* The cache scenario with single-event reads among the listings.
NextReads ==
  \/ NextCache
  \/ \E l \in Listers : GetEventEndpoint(l)

SpecReads == InitCache /\ [][NextReads]_vars

\* The cache scenario with the cache store reachable throughout.
NextCacheUp ==
  \/ \E p \in Writers : BookStep(p) \/ CancelStep(p)
  \/ \E l \in Listers : ListStep(l)
  \/ \E k \in Pages : CacheExpire(k)

SpecCacheUp == InitCache /\ [][NextCacheUp]_vars

\* ------------------------------------------------- admission strategies
\* The check script of the counter store, run atomically on the keys
\* seats:{event_id} and reserved:{event_id}: admit when the margin covers the
\* quantity and reserve it in the same step.
AdmissionScript(seats, reserved, q) ==
  IF seats - reserved >= q
    THEN [ok |-> TRUE, reserved |-> reserved + q]
    ELSE [ok |-> FALSE, reserved |-> reserved]

\* Mutant: the store being down, the request is turned away.
RedisAdmitFailClosed(up, seats, reserved, q) ==
  IF up THEN AdmissionScript(seats, reserved, q)
        ELSE [ok |-> FALSE, reserved |-> reserved]

\* Mutant: the quantity is not forwarded, the script gets the default of 1.
RedisAdmitDefaultSeats(up, seats, reserved, q) ==
  IF up THEN AdmissionScript(seats, reserved, 1)
        ELSE [ok |-> TRUE, reserved |-> reserved]

\* RedisAdmission.admit: the script's answer, or True when the call raises.
RedisAdmissionAdmit(up, seats, reserved, q) ==
  IF up THEN AdmissionScript(seats, reserved, q)
        ELSE [ok |-> TRUE, reserved |-> reserved]

\* Mutant: the decrement takes effect although the call raised.
RedisReleaseDespiteFailure(up, reserved, q) == reserved - q

\* RedisAdmission.release: decrby, a failure swallowed.
RedisAdmissionRelease(up, reserved, q) ==
  IF up THEN reserved - q ELSE reserved

\* RedisAdmission.sync: set seats:{event_id}, a failure swallowed.
RedisAdmissionSync(up, seats, available) ==
  IF up THEN available ELSE seats

\* Mutant: the no-op variant keeps count of what it admits.
OptimisticAdmitReserves(up, seats, reserved, q) ==
  [ok |-> TRUE, reserved |-> reserved + q]

\* OptimisticAdmission.admit
OptimisticAdmissionAdmit(up, seats, reserved, q) ==
  [ok |-> TRUE, reserved |-> reserved]

\* OptimisticAdmission.release
OptimisticAdmissionRelease(up, reserved, q) == reserved

\* OptimisticAdmission.sync
OptimisticAdmissionSync(up, seats, available) == seats

\* A caller that follows the AdmissionStrategy interface: admit, proceed to
\* the database when admitted, release on booking failure.  Callers are
\* numbered in their order of arrival.
GateAdmit(p) ==
  /\ p \in Gated
  /\ Arrives(p)
  /\ \E u \in Owners, q \in 1..MaxQty :
       LET r == IF strategy = "redis"
                  THEN RedisAdmissionAdmit(redis_up, seats_key, reserved_key, q)
                  ELSE OptimisticAdmissionAdmit(redis_up, seats_key, reserved_key, q)
       IN  /\ req' = [req EXCEPT ![p] = [kind |-> "book", user_id |-> u,
                                         seat_count |-> q, booking_id |-> 0]]
           /\ reserved_key' = r.reserved
           /\ IF r.ok
                THEN /\ admitted' = [admitted EXCEPT ![p] = "yes"]
                     /\ pc' = [pc EXCEPT ![p] = "admitted"]
                     /\ UNCHANGED result
                ELSE /\ admitted' = [admitted EXCEPT ![p] = "no"]
                     /\ Finish(p, "rejected")
  /\ UNCHANGED <<event, bookings, lock, tx_event, tx_insert, tx_cancel, attempt,
                 seen_seats, current_version, n_updates, booking_id, cacheVars,
                 strategy, redis_up, seats_key, released, simVars>>

\* The admitted caller enters book_seats: the duplicate pre-check, then the
\* retry loop.
GatedCheckExisting(p) ==
  /\ pc[p] = "admitted"
  /\ IF ExistingConfirmed(bookings, req[p].user_id)
       THEN /\ Finish(p, "duplicate")
            /\ UNCHANGED attempt
       ELSE /\ pc' = [pc EXCEPT ![p] = "read"]
            /\ attempt' = [attempt EXCEPT ![p] = 1]
            /\ UNCHANGED result
  /\ UNCHANGED <<event, bookings, lock, tx_event, tx_insert, tx_cancel, req,
                 seen_seats, current_version, n_updates, booking_id, cacheVars,
                 gateVars, simVars>>

\* The admitted caller's booking failed: release(event_id, seat_count).
GateRelease(p) ==
  /\ pc[p] = "done"
  /\ admitted[p] = "yes"
  /\ ~released[p]
  /\ result[p] # "success"
  /\ reserved_key' =
       IF strategy = "redis"
         THEN RedisAdmissionRelease(redis_up, reserved_key, req[p].seat_count)
         ELSE OptimisticAdmissionRelease(redis_up, reserved_key, req[p].seat_count)
  /\ released' = [released EXCEPT ![p] = TRUE]
  /\ UNCHANGED <<coreVars, cacheVars, strategy, redis_up, seats_key, admitted,
                 simVars>>

\* Reconciliation: sync(event_id, available_seats) with the committed value.
GateSync ==
  /\ seats_key' =
       IF strategy = "redis"
         THEN RedisAdmissionSync(redis_up, seats_key, event.available_seats)
         ELSE OptimisticAdmissionSync(redis_up, seats_key, event.available_seats)
  /\ UNCHANGED <<coreVars, cacheVars, strategy, redis_up, reserved_key, admitted,
                 released, simVars>>

\* The counter store becomes unreachable: every call on it raises.
CounterStoreFails ==
  /\ redis_up
  /\ redis_up' = FALSE
  /\ UNCHANGED <<coreVars, cacheVars, strategy, seats_key, reserved_key, admitted,
                 released, simVars>>

CounterStoreRecovers ==
  /\ ~redis_up
  /\ redis_up' = TRUE
  /\ UNCHANGED <<coreVars, cacheVars, strategy, seats_key, reserved_key, admitted,
                 released, simVars>>

GatedStep(p) ==
  \/ GateAdmit(p)
  \/ GatedCheckExisting(p)
  \/ BookRead(p)
  \/ BookUpdate(p)
  \/ BookInsert(p)
  \/ Invalidate(p)
  \/ Commit(p)
  \/ GateRelease(p)

\* The gate configured with strategy st over a fresh event, the counters
\* synced with it.
InitGate(st) ==
  /\ \E n \in 1..MaxSeats : event = NewEvent(n)
  /\ bookings = <<>>
  /\ IdleProcs
  /\ NoSimulation
  /\ pc = [p \in AllProcs |-> "idle"]
  /\ req = [p \in AllProcs |-> NoReq]
  /\ ColdCache
  /\ strategy = st
  /\ redis_up = TRUE
  /\ seats_key = event.available_seats
  /\ reserved_key = 0
  /\ admitted = [p \in AllProcs |-> "none"]
  /\ released = [p \in AllProcs |-> FALSE]

InitRedisGate == InitGate("redis")

InitOptimisticGate == InitGate("optimistic")

\* ADMISSION_STRATEGY = redis, the counter store reachable throughout.
NextGateUp == \E p \in AllProcs : GatedStep(p)

SpecGateUp == InitRedisGate /\ [][NextGateUp]_vars

\* ADMISSION_STRATEGY = redis, the counter store failing and recovering.
NextGated ==
  \/ \E p \in AllProcs : GatedStep(p)
  \/ CounterStoreFails
  \/ CounterStoreRecovers

SpecGated == InitRedisGate /\ [][NextGated]_vars

\* ADMISSION_STRATEGY = redis with reconciliation: sync may run at any
\* moment, the counter store failing and recovering.
NextGateMaintained ==
  \/ \E p \in AllProcs : GatedStep(p)
  \/ GateSync
  \/ CounterStoreFails
  \/ CounterStoreRecovers

SpecGateMaintained == InitRedisGate /\ [][NextGateMaintained]_vars

\* The no-op strategy in place of the counter-store one.
NextOptimistic ==
  \/ \E p \in AllProcs : GatedStep(p)
  \/ GateSync

SpecOptimistic == InitOptimisticGate /\ [][NextOptimistic]_vars

\* Reservations for the event and for event ids that do not exist.
NextOutcomes == \E p \in AllProcs : BookStep(p) \/ BookMissingEvent(p)

SpecOutcomes == Init /\ [][NextOutcomes]_vars

\* One request at a time: a request arrives only when no other is running,
\* as in the endpoint tests.
NoneRunningBut(p) == \A q \in AllProcs \ {p} : pc[q] \in {"idle", "done"}

NextSequential ==
  \E p \in AllProcs : NoneRunningBut(p) /\ (BookStep(p) \/ CancelStep(p))

SpecSequential == Init /\ [][NextSequential]_vars

\* The sell-out scenario: NumRequesters book_seats(seat_count = 1) calls of
\* distinct owners against a fresh event with fewer seats than requesters.
InitSellOut ==
  /\ \E n \in 1..(NumRequesters - 1) : event = NewEvent(n)
  /\ bookings = <<>>
  /\ IdleProcs
  /\ NoSimulation
  /\ pc = [p \in AllProcs |-> "idle"]
  /\ req = [p \in AllProcs |-> NoReq]
  /\ ColdCache
  /\ NoGate

SellOutStep(p) ==
  \/ SellOutCheckExisting(p)
  \/ BookRead(p)
  \/ BookUpdate(p)
  \/ BookInsert(p)
  \/ Invalidate(p)
  \/ Commit(p)

NextSellOut == \E p \in AllProcs : SellOutStep(p)

SpecSellOut == InitSellOut /\ [][NextSellOut]_vars

\* The retry scenario: the sell-out scenario with NumContenders requesters,
\* the fewest that can make a call run out of attempts.
InitRetry ==
  /\ \E n \in 1..(NumContenders - 1) : event = NewEvent(n)
  /\ bookings = <<>>
  /\ IdleProcs
  /\ NoSimulation
  /\ pc = [p \in AllProcs |-> "idle"]
  /\ req = [p \in AllProcs |-> NoReq]
  /\ ColdCache
  /\ NoGate

RetryStep(p) ==
  \/ ContenderCheckExisting(p)
  \/ BookRead(p)
  \/ BookUpdate(p)
  \/ BookInsert(p)
  \/ Invalidate(p)
  \/ Commit(p)

NextRetry == \E p \in AllProcs : RetryStep(p)

\* Every request handler that can take a step eventually takes it: the event
\* loop resumes every task whose awaited statement has completed.
FairRetry ==
  InitRetry /\ [][NextRetry]_vars /\ \A p \in Contenders : WF_vars(RetryStep(p))

\* The progress scenario: book_seats calls of distinct owners, for any
\* quantities, against a fresh event; no cancellation.
ProgressStep(p) ==
  \/ ProgressCheckExisting(p)
  \/ BookRead(p)
  \/ BookUpdate(p)
  \/ BookInsert(p)
  \/ Invalidate(p)
  \/ Commit(p)

NextProgress == \E p \in AllProcs : ProgressStep(p)

\* Every request handler that can take a step eventually takes it.
FairProgress ==
  Init /\ [][NextProgress]_vars /\ \A p \in Procs : WF_vars(ProgressStep(p))

\* ------------------------------------------------------------ properties
Succeeded == {p \in AllProcs : req[p].kind = "book" /\ result[p] = "success"}

\* C1: no oversell.  Under any interleaving of book_seats calls the seats of
\* the confirmed bookings never exceed the event's seat_count, and neither the
\* committed nor any uncommitted available_seats is negative.
C1_NoOversell ==
  /\ ConfirmedSeats(bookings) <= event.seat_count
  /\ event.available_seats >= 0
  /\ \A p \in AllProcs : tx_event[p].available_seats >= 0

\* C1 witness: the event is sold out by two bookings and a third call was
\* turned away for lack of seats after a conflict.
C1_Witness ==
  /\ ConfirmedSeats(bookings) = event.seat_count
  /\ Cardinality(Succeeded) >= 2
  /\ \E p \in AllProcs : result[p] = "insufficient" /\ attempt[p] > 1

\* C2: capacity range.  No write attempted by book_seats or cancel_booking is
\* ever stopped by a CHECK constraint of the events table.
C2_ConstraintNeverStopsAWrite ==
  \A p \in AllProcs : result[p] # "check_violation"

\* C3: version monotonicity.  Every step that changes the committed event row
\* raises its version by exactly 1, so no two mutations produce the same version.
C3_VersionMonotonic ==
  [][event' # event => event'.version = event.version + 1]_vars

\* C3 witness: a decrement and a restoration have both been committed.
C3_Witness ==
  /\ event.version = 3
  /\ \E p \in AllProcs : result[p] = "success"
  /\ \E p \in AllProcs : result[p] = "cancelled"

\* C4: available_seats and version change together.  In every step the
\* committed available_seats changes exactly when the committed version does,
\* and an uncommitted event row differs from the committed one in both.
C4_SeatsAndVersionTogether ==
  [][/\ (event'.available_seats # event.available_seats)
          <=> (event'.version # event.version)
     /\ \A p \in AllProcs :
          tx_event'[p] # NoRow =>
            /\ tx_event'[p].available_seats # event.available_seats
            /\ tx_event'[p].version # event.version]_vars

\* C4 witness: a booking of two seats is committed while a restoration of it
\* is still uncommitted.
C4_Witness ==
  /\ event.version = 2
  /\ event.available_seats = event.seat_count - 2
  /\ \E p \in AllProcs : req[p].kind = "cancel" /\ tx_event[p] # NoRow

\* The conditional UPDATE of request p affected a row in this state.
Affected(p) ==
  /\ req[p].kind = "book"
  /\ (pc[p] \in {"insert", "invalidate", "commit"} \/ result[p] = "success")

\* C5 (as stated): of two book_seats attempts that read the same version at
\* most one gets rowcount 1, whether or not its transaction is later rolled back.
C5_OneRowcountPerVersion ==
  \A p, q \in AllProcs :
    (p # q /\ n_updates[p] > 0 /\ n_updates[q] > 0
       /\ req[p].kind = "book" /\ req[q].kind = "book"
       /\ (pc[p] \in {"insert", "invalidate", "commit"}
             \/ result[p] \in {"success", "integrity_error"})
       /\ (pc[q] \in {"insert", "invalidate", "commit"}
             \/ result[q] \in {"success", "integrity_error"}))
      => current_version[p] # current_version[q]

\* C5 (amended): of two book_seats attempts that read the same version at most
\* one has a conditional UPDATE that affected a row and was not rolled back.
C5_OneWinnerPerVersion ==
  \A p, q \in AllProcs :
    (p # q /\ Affected(p) /\ Affected(q))
      => current_version[p] # current_version[q]

\* C5 witness: two attempts read the same version; one won, the other got
\* rowcount 0 and went on to its second attempt.
C5_Witness ==
  \E p, q \in AllProcs :
    /\ p # q
    /\ result[p] = "success"
    /\ req[q].kind = "book"
    /\ attempt[q] = 2
    /\ n_updates[q] = 1
    /\ current_version[q] = current_version[p]

\* ---- the sell-out scenario
RequestersDone == \A p \in Requesters : pc[p] = "done"

Min(a, b) == IF a < b THEN a ELSE b

\* C6 (as stated): when all NumRequesters calls have returned and the event
\* had fewer seats than callers, exactly seat_count calls succeeded, the others
\* failed for lack of seats or for contention, no seat is left and the version
\* is seat_count + 1.
C6_SellOutExact ==
  RequestersDone =>
    /\ Cardinality(Succeeded) = event.seat_count
    /\ \A p \in Requesters \ Succeeded : result[p] \in {"insufficient", "contention"}
    /\ event.available_seats = 0
    /\ event.version = event.seat_count + 1

\* C6 (amended): when all calls have returned, between
\* min(seat_count, MAX_RETRY_ATTEMPTS) and seat_count of them succeeded, the
\* others failed for lack of seats or for contention, available_seats is
\* seat_count less the successes and the version is the successes plus 1.
C6_SellOutBounded ==
  RequestersDone =>
    /\ Cardinality(Succeeded) <= event.seat_count
    /\ Cardinality(Succeeded) >= Min(event.seat_count, MAX_RETRY_ATTEMPTS)
    /\ \A p \in Requesters \ Succeeded : result[p] \in {"insufficient", "contention"}
    /\ event.available_seats = event.seat_count - Cardinality(Succeeded)
    /\ event.version = Cardinality(Succeeded) + 1

\* C6 witness: every call has returned, the event is sold out, and calls
\* failed in both ways.
C6_Witness ==
  /\ RequestersDone
  /\ event.available_seats = 0
  /\ \E p \in Requesters : result[p] = "insufficient"
  /\ \E p \in Requesters : result[p] = "contention"

\* C7: bounded retry.  A call executes at most MAX_RETRY_ATTEMPTS conditional
\* updates, it fails for contention exactly when all of them found no row, ...
C7_AtMostMaxAttempts ==
  \A p \in AllProcs :
    /\ n_updates[p] <= MAX_RETRY_ATTEMPTS
    /\ attempt[p] <= MAX_RETRY_ATTEMPTS
    /\ result[p] = "contention" =>
         (n_updates[p] = MAX_RETRY_ATTEMPTS /\ attempt[p] = MAX_RETRY_ATTEMPTS)
    /\ (pc[p] = "done" /\ n_updates[p] = MAX_RETRY_ATTEMPTS /\ result[p] # "success")
         => result[p] = "contention"

\* ... and every call terminates.
C7_BoundedRetry ==
  []C7_AtMostMaxAttempts /\ <>(\A p \in Contenders : pc[p] = "done")

\* C7 witness: a call has failed for contention after three conflicts.
C7_Witness ==
  \E p \in Contenders :
    result[p] = "contention" /\ n_updates[p] = MAX_RETRY_ATTEMPTS

\* ---- single steps of book_seats
\* C8: insufficient capacity is terminal.  A read that finds fewer seats than
\* requested ends the call with the insufficient-capacity rejection in that
\* step, which leaves the event, the bookings and the row lock as they were;
\* a call that has returned takes no further step.
C8_InsufficientIsTerminal ==
  [][\A p \in AllProcs :
       /\ (pc[p] = "read" /\ pc'[p] # "read"
             /\ event.available_seats < req[p].seat_count)
            => /\ pc'[p] = "done"
               /\ result'[p] = "insufficient"
               /\ n_updates'[p] = n_updates[p]
               /\ UNCHANGED <<event, bookings, lock>>
       /\ pc[p] = "done"
            => /\ pc'[p] = "done"
               /\ result'[p] = result[p]
               /\ n_updates'[p] = n_updates[p]]_vars

\* C8 witness: a call asking for two seats was rejected on its second attempt.
C8_Witness ==
  \E p \in AllProcs :
    /\ result[p] = "insufficient"
    /\ attempt[p] = 2
    /\ req[p].seat_count = 2
    /\ event.available_seats = 1

RECURSIVE SeatsOf(_)
\* Sum of the requested seat_count over a set of requests.
SeatsOf(ps) ==
  IF ps = {} THEN 0
  ELSE LET p == CHOOSE x \in ps : TRUE IN req[p].seat_count + SeatsOf(ps \ {p})

C10_CancelRestoresExactly ==
  [][\A c, p \in AllProcs :
       (/\ req[c].kind = "cancel" /\ pc[c] = "commit" /\ pc'[c] = "done"
        /\ p \in Succeeded /\ booking_id[p] = req[c].booking_id
        /\ event.version = current_version[p] + 1)
       => /\ event'.available_seats = seen_seats[p]
          /\ event'.version = current_version[p] + 2
          /\ bookings'[req[c].booking_id].status = "cancelled"]_vars

\* C10 witness: a booking of two seats was cancelled right after it was made.
C10_Witness ==
  \E c, p \in AllProcs :
    /\ result[c] = "cancelled"
    /\ p \in Succeeded /\ booking_id[p] = req[c].booking_id
    /\ req[p].seat_count = 2
    /\ event.version = current_version[p] + 2
    /\ event.available_seats = seen_seats[p]
    /\ bookings[booking_id[p]].status = "cancelled"

\* ---- guards of book_seats and cancel_booking
\* The owner holds a confirmed booking in the committed table.
HoldsConfirmed(u) ==
  \E i \in 1..Len(bookings) :
    bookings[i].user_id = u /\ bookings[i].status = "confirmed"

\* C11: duplicate guard.  A book_seats call is rejected as a duplicate
\* exactly when its owner holds a confirmed booking at the pre-check; the
\* rejection comes before the retry loop (no attempt, no conditional update)
\* and leaves the event row, the bookings and the row lock as they were.
C11_DuplicateGuard ==
  [][\A p \in AllProcs :
       (pc[p] = "idle" /\ pc'[p] # "idle" /\ req'[p].kind = "book")
         => /\ HoldsConfirmed(req'[p].user_id) <=> result'[p] = "duplicate"
            /\ result'[p] = "duplicate"
                 => /\ pc'[p] = "done"
                    /\ attempt'[p] = 0
                    /\ n_updates'[p] = 0
                    /\ UNCHANGED <<event, bookings, lock, tx_event, tx_insert>>]_vars

\* C11 witness: a call was rejected as a duplicate, before any attempt, while
\* the one committed booking of the event was its owner's.
C11_Witness ==
  /\ \E p \in AllProcs :
       /\ result[p] = "duplicate"
       /\ attempt[p] = 0
       /\ event.version = 2
  /\ \E p \in AllProcs : result[p] = "success"

\* At most one confirmed booking per owner in the committed table.
C12_AtMostOneConfirmed ==
  \A i, j \in 1..Len(bookings) :
    (i # j /\ bookings[i].user_id = bookings[j].user_id)
      => ~(bookings[i].status = "confirmed" /\ bookings[j].status = "confirmed")

\* The step in which a call fails at its INSERT drops its uncommitted
\* decrement, releases the row lock and leaves the committed rows alone.
C12_LoserLeavesNothing ==
  [][\A p \in AllProcs :
       (pc[p] = "insert" /\ pc'[p] = "done")
         => /\ result'[p] = "integrity_error"
            /\ tx_event'[p] = NoRow
            /\ tx_insert'[p] = NoBooking
            /\ lock' # p
            /\ UNCHANGED <<event, bookings>>]_vars

\* C12: uniqueness under race.  In every reachable state each owner has at
\* most one confirmed booking of the event, also when two calls of one owner
\* both passed the duplicate pre-check; the call that loses at the INSERT
\* leaves no capacity decrement behind.
C12_UniqueUnderRace ==
  []C12_AtMostOneConfirmed /\ C12_LoserLeavesNothing

\* C12 witness: two calls of one owner both got their conditional update
\* through; one committed, the other failed at the INSERT, and the event
\* lacks the seats of the committed booking only.
C12_Witness ==
  \E p, q \in AllProcs :
    /\ p # q
    /\ req[p].kind = "book" /\ req[q].kind = "book"
    /\ req[p].user_id = req[q].user_id
    /\ result[p] = "success"
    /\ result[q] = "integrity_error"
    /\ Len(bookings) = 1
    /\ event.available_seats = event.seat_count - req[p].seat_count
    /\ lock = 0

\* C13: re-booking after cancellation.  With one request at a time, a
\* book_seats call of an owner who holds no confirmed booking (the earlier one
\* was cancelled) and whose conditional update went through creates its
\* booking: its INSERT is not refused, so the call goes on to commit a second
\* record for the pair.
C13_RebookAfterCancelSucceeds ==
  [][\A p \in AllProcs :
       (pc[p] = "insert" /\ pc'[p] # "insert" /\ ~HoldsConfirmed(req[p].user_id))
         => /\ pc'[p] = "invalidate"
            /\ tx_insert'[p] = [user_id |-> req[p].user_id,
                                seat_count |-> req[p].seat_count,
                                status |-> "confirmed"]]_vars

\* C14: release rejections.  A cancel_booking call ends as not-found exactly
\* when the committed table has no booking of that id owned by the caller,
\* and as already-cancelled exactly when that booking's status is cancelled;
\* either rejection leaves the event row, every booking, the row lock and
\* the uncommitted rows as they were, and any other call goes on to restore.
C14_ReleaseRejections ==
  [][\A p \in AllProcs :
       (pc[p] = "idle" /\ pc'[p] # "idle" /\ req'[p].kind = "cancel")
         => LET id == req'[p].booking_id
                owned == /\ id \in 1..Len(bookings)
                         /\ bookings[id].user_id = req'[p].user_id
            IN  /\ ~owned <=> result'[p] = "not_found"
                /\ (owned /\ bookings[id].status = "cancelled")
                     <=> result'[p] = "already_cancelled"
                /\ result'[p] \in {"not_found", "already_cancelled"}
                     => /\ pc'[p] = "done"
                        /\ UNCHANGED <<event, bookings, lock, tx_event, tx_cancel>>
                /\ result'[p] \notin {"not_found", "already_cancelled"}
                     => /\ pc'[p] = "c_restore"
                        /\ result'[p] = "none"]_vars

\* C14 witness: a call was turned away from another owner's confirmed booking
\* as not-found, the owner's own call for the same booking passed both guards,
\* and the event still lacks the booking's seats.
C14_Witness ==
  \E p, c \in AllProcs :
    /\ result[p] = "not_found"
    /\ req[p].booking_id \in 1..Len(bookings)
    /\ bookings[req[p].booking_id].user_id # req[p].user_id
    /\ bookings[req[p].booking_id].status = "confirmed"
    /\ req[c].kind = "cancel" /\ req[c].booking_id = req[p].booking_id
    /\ pc[c] = "c_restore"
    /\ event.available_seats < event.seat_count

\* C15: outcome exhaustiveness.  Every book_seats call that has returned
\* ended as success, insufficient-capacity, duplicate-booking,
\* contention-exhausted or not-found; in particular none fell through the
\* retry loop to the "Booking failed unexpectedly" error.
C15_OutcomeExhaustive ==
  \A p \in AllProcs :
    (req[p].kind = "book" /\ pc[p] = "done")
      => result[p] \in {"success", "insufficient", "duplicate", "contention",
                        "not_found"}

\* ---- the listing cache
ListingInFlight == \E l \in Listers : list_pc[l] \in {"query", "set"}

\* C20: invalidation on every capacity write.  A request's session commits,
\* and its call ends as successful, only after its invalidation pass, which
\* follows the return of book_seats or cancel_booking; and when the pass runs
\* with the cache store reachable and no listing request in flight, no
\* listing key is left.
C20_InvalidationOnEveryWrite ==
  [][\A p \in AllProcs :
       /\ (result'[p] \in {"success", "cancelled"} /\ result[p] = "none")
            => pc[p] = "commit"
       /\ (pc'[p] = "commit" /\ pc[p] # "commit") => pc[p] = "invalidate"
       /\ (pc'[p] = "invalidate" /\ pc[p] # "invalidate")
            => pc[p] \in {"insert", "c_flush"}
       /\ (pc[p] = "invalidate" /\ pc'[p] # "invalidate")
            => /\ pc'[p] = "commit"
               /\ (cache_up /\ ~ListingInFlight)
                    => \A k \in Pages : cache'[k] = NoEntry]_vars

\* C20 witness: the pass of a successful booking deleted both cached pages
\* and the pass of the cancellation that followed deleted a page cached in
\* between.
C20_Witness ==
  \E p, c \in AllProcs :
    /\ result[p] = "success" /\ keys_deleted[p] = 2
    /\ req[c].kind = "cancel" /\ pc[c] = "commit" /\ keys_deleted[c] = 1
    /\ cache_up
    /\ \A k \in Pages : cache[k] = NoEntry

\* ------------------------------------------------------------ C16 .. C19
\* The step in which caller p asks the gate.
AdmitStep(p) == admitted[p] = "none" /\ admitted'[p] # "none"

\* C16: fail-open gate.  An admit call made while the counter store is
\* unreachable returns true for every quantity, whatever the counters hold:
\* the caller goes on into book_seats over an untouched database and
\* untouched counters, so the reservation runs as it would without the gate.
\* A caller is turned away only by the script, with the store reachable and
\* the margin short of its quantity.
C16_FailOpenGate ==
  [][\A p \in Gated :
       /\ (AdmitStep(p) /\ ~redis_up)
            => /\ admitted'[p] = "yes"
               /\ pc'[p] = "admitted"
               /\ UNCHANGED <<seats_key, reserved_key, event, bookings>>
       /\ (AdmitStep(p) /\ admitted'[p] = "no")
            => /\ redis_up
               /\ seats_key - reserved_key < req'[p].seat_count]_vars

\* C16 witness: the only caller so far was admitted without a reservation
\* being counted, which only the failed-open path does, and its booking
\* succeeded.
C16_Witness ==
  \E p \in Gated :
    /\ admitted[p] = "yes"
    /\ pc[p] = "done" /\ result[p] = "success"
    /\ reserved_key = 0
    /\ \A o \in AllProcs \ {p} : pc[o] = "idle"

RECURSIVE HeldUpTo(_)
\* The quantities admitted to callers 1..n and not released.
HeldUpTo(n) ==
  IF n = 0 THEN 0
  ELSE HeldUpTo(n - 1)
       + (IF admitted[n] = "yes" /\ ~released[n] THEN req[n].seat_count ELSE 0)

C17_HeldWithinAvailable ==
  /\ HeldUpTo(NumGated) = reserved_key
  /\ reserved_key <= seats_key

C17_CheckAndReserve ==
  [][\A p \in Gated :
       (AdmitStep(p) /\ admitted'[p] = "yes")
         => /\ seats_key - reserved_key >= req'[p].seat_count
            /\ reserved_key' = reserved_key + req'[p].seat_count]_vars

\* C17: atomic check-and-reserve.  With the counter store reachable an admit
\* call returns true only when available - reserved covers its quantity in the
\* state it is made in, and the same step adds the quantity to reserved; so,
\* for every interleaving of callers, the quantities admitted and not
\* released add up to the reserved counter and never exceed the available
\* counter.
C17_AtomicCheckAndReserve ==
  []C17_HeldWithinAvailable /\ C17_CheckAndReserve

\* C17 witness: one caller holds an admission that uses up the whole
\* available counter while its booking is still running, and the gate turned
\* a second caller away.
C17_Witness ==
  \E p, o \in Gated :
    /\ admitted[p] = "yes" /\ pc[p] \notin {"idle", "done"}
    /\ admitted[o] = "no" /\ result[o] = "rejected"
    /\ reserved_key = seats_key
    /\ reserved_key = req[p].seat_count

\* C18: gate release on rejection.  Every booking request has asked the
\* Admission Gate by the time it is inside book_seats, and a request that was
\* admitted and ended in insufficient capacity or exhausted contention,
\* once its response is out, has called release (the reserved counter is
\* back at its value before the admit).
C18_GateAskedAndReleased ==
  \A p \in AllProcs :
    /\ (req[p].kind = "book" /\ pc[p] # "idle") => admitted[p] # "none"
    /\ (pc[p] = "done" /\ result[p] \in {"insufficient", "contention"}
          /\ admitted[p] = "yes")
         => (released[p] /\ reserved_key = 0)

\* C19: no-op gate variant.  OptimisticAdmission.admit admits every caller,
\* admit, release and sync leave both counters as they were, and the booking
\* flow run behind it never oversells: the confirmed seats stay within the
\* capacity and no committed or uncommitted available_seats is negative.
C19_NoOpGate ==
  /\ [](/\ \A p \in Gated : admitted[p] # "no"
        /\ ConfirmedSeats(bookings) <= event.seat_count
        /\ event.available_seats >= 0
        /\ \A p \in AllProcs : tx_event[p].available_seats >= 0)
  /\ [][UNCHANGED <<seats_key, reserved_key>>]_vars

\* C19 witness: behind the no-op gate one caller's booking sold the event
\* out, a second caller was admitted all the same, failed for lack of seats
\* and released, and the counters are where they started.
C19_Witness ==
  \E p, o \in Gated :
    /\ admitted[p] = "yes" /\ result[p] = "success"
    /\ event.available_seats = 0
    /\ admitted[o] = "yes" /\ result[o] = "insufficient" /\ released[o]
    /\ reserved_key = 0
    /\ seats_key = event.seat_count

\* ------------------------------------------------------------ C21 .. C30
C21_ReadIsFresh ==
  [][\A p \in AllProcs :
       /\ (pc[p] = "update" /\ pc'[p] = "read")
            => /\ attempt'[p] = attempt[p] + 1
               /\ tx_event'[p] = NoRow
               /\ lock' # p
               /\ event.version > current_version[p]
       /\ (pc[p] = "read" /\ pc'[p] # "read")
            => /\ current_version'[p] = event.version
               /\ seen_seats'[p] = event.available_seats
       /\ pc[p] # "read"
            => /\ current_version'[p] = current_version[p]
               /\ seen_seats'[p] = seen_seats[p]
       /\ (pc[p] = "update" /\ pc'[p] = "insert")
            => /\ event.version = current_version[p]
               /\ event.available_seats = seen_seats[p]]_vars

C21_NewerThanLastAttempt ==
  \A p \in AllProcs :
    pc[p] \in {"update", "insert", "invalidate", "commit"}
      => current_version[p] >= attempt[p]

\* C21: fresh re-read on retry.  A conflict discards the attempt (the
\* transaction is rolled back, the attempt counter goes up by one), the read
\* of the next attempt takes version and available_seats from the row as
\* committed at that moment, which is newer than the row the failed attempt
\* had read, nothing but that read changes the two values, and an update that
\* goes through found the row exactly as its own attempt read it.  Each
\* attempt's version is therefore above that of the attempt before it.
C21_FreshReread ==
  C21_ReadIsFresh /\ []C21_NewerThanLastAttempt

\* C21 witness: after a conflict a call read the row another booking had
\* committed, version 2 with fewer seats, and its second update went through
\* on those values.
C21_Witness ==
  \E p \in AllProcs :
    /\ pc[p] = "insert"
    /\ attempt[p] = 2
    /\ current_version[p] = 2
    /\ seen_seats[p] < event.seat_count
    /\ tx_event[p].available_seats = seen_seats[p] - req[p].seat_count
    /\ tx_event[p].version = 3

\* C22: no unconditional capacity writes.  Every statement that changes an
\* event's available_seats or version, the restoring UPDATE of cancel_booking
\* included, goes through only on the version its operation last read, and
\* writes that version plus one.
C22_WritesAreConditional ==
  [][\A p \in AllProcs :
       (tx_event'[p] # tx_event[p] /\ tx_event'[p] # NoRow)
         => /\ current_version[p] = event.version
            /\ tx_event'[p].version = current_version[p] + 1]_vars

\* C23: capacity conservation.  In every committed state available_seats
\* plus the seats of the confirmed bookings is the event's seat_count.
C23_CapacityConservation ==
  event.available_seats + ConfirmedSeats(bookings) = event.seat_count

\* The cancellations of booking id that returned success.
CancelledBy(id) ==
  {c \in AllProcs : /\ req[c].kind = "cancel"
                    /\ req[c].booking_id = id
                    /\ result[c] = "cancelled"}

\* C24: single restoration under concurrent release.  Of the cancel_booking
\* calls for one booking at most one returns success, so its seat_count is
\* added back to available_seats at most once.
C24_SingleRestoration ==
  \A id \in 1..Len(bookings) : Cardinality(CancelledBy(id)) <= 1

C25_ConflictHasCause ==
  [][\A p \in AllProcs :
       (pc[p] = "update" /\ pc'[p] \in {"read", "done"}
          /\ result'[p] \in {"none", "contention"})
         => event.version > current_version[p]]_vars

C25_SomeoneSucceeds ==
  (\E p \in Procs : /\ req[p].kind = "book"
                    /\ req[p].seat_count <= event.seat_count)
    ~> (\E p \in Procs : result[p] = "success")

\* C25: system-wide progress.  A conditional update of book_seats affects no
\* row only when the committed version is above the one its attempt read,
\* that is when another mutation of the event committed in between; and when
\* calls of distinct owners run without cancellations against a fresh event
\* that has the seats for at least one of them, some call succeeds.
C25_Progress ==
  C25_ConflictHasCause /\ C25_SomeoneSucceeds

\* C25 witness: every call of the scenario has ended; exactly one succeeded,
\* and another conflicted with it and was then rejected for lack of seats.
C25_Witness ==
  /\ \A p \in Procs : pc[p] = "done"
  /\ \E p, q \in Procs :
       /\ result[p] = "success"
       /\ result[q] = "insufficient" /\ attempt[q] >= 2
  /\ Cardinality({p \in Procs : result[p] = "success"}) = 1

\* C26: the reservation lifecycle is one-way.  A booking record appears only
\* with the commit of a successful book_seats, in status confirmed and with
\* that call's owner and quantity; the only change a record ever undergoes
\* is confirmed to cancelled, with the commit of a successful cancel_booking
\* for it; a cancelled record stays cancelled.
C26_LifecycleOneWay ==
  [][/\ Len(bookings') \in {Len(bookings), Len(bookings) + 1}
     /\ Len(bookings') = Len(bookings) + 1
          => /\ bookings'[Len(bookings')].status = "confirmed"
             /\ \E p \in AllProcs :
                  /\ req[p].kind = "book"
                  /\ result[p] # "success" /\ result'[p] = "success"
                  /\ booking_id[p] = Len(bookings')
                  /\ bookings'[Len(bookings')].user_id = req[p].user_id
                  /\ bookings'[Len(bookings')].seat_count = req[p].seat_count
     /\ \A i \in 1..Len(bookings) :
          \/ bookings'[i] = bookings[i]
          \/ /\ bookings[i].status = "confirmed"
             /\ bookings'[i] = [bookings[i] EXCEPT !.status = "cancelled"]
             /\ \E c \in AllProcs :
                  /\ req[c].kind = "cancel" /\ req[c].booking_id = i
                  /\ result[c] # "cancelled" /\ result'[c] = "cancelled"]_vars

\* C26 witness: a booking made by a call of this run was cancelled, a second
\* cancellation of it also committed and left it cancelled, and another
\* confirmed booking stands beside it.
C26_Witness ==
  \E p, c, d \in AllProcs :
    /\ c # d
    /\ result[p] = "success"
    /\ result[c] = "cancelled" /\ req[c].booking_id = booking_id[p]
    /\ result[d] = "cancelled" /\ req[d].booking_id = booking_id[p]
    /\ bookings[booking_id[p]].status = "cancelled"
    /\ \E i \in 1..Len(bookings) : bookings[i].status = "confirmed"

\* The step in which caller p calls release.
ReleaseStep(p) == ~released[p] /\ released'[p]

\* C27: best-effort gate maintenance.  release and sync never raise: a
\* release returns to a caller whose outcome stays what it was, having taken
\* the quantity off the reserved counter when the counter store is reachable
\* and nothing when it is not; and no counter changes in a step taken while
\* the counter store is unreachable, a sync included.
C27_BestEffortMaintenance ==
  [][/\ \A p \in Gated :
          ReleaseStep(p)
            => /\ pc'[p] = pc[p] /\ result'[p] = result[p]
               /\ seats_key' = seats_key
               /\ reserved_key' = IF redis_up
                                    THEN reserved_key - req[p].seat_count
                                    ELSE reserved_key
     /\ ~redis_up => UNCHANGED <<seats_key, reserved_key>>]_vars

\* C27 witness: both callers were admitted by the script, one booked, the
\* other failed and has released, and the reserved counter still holds both
\* quantities: the release found the counter store unreachable and returned.
C27_Witness ==
  \E p, o \in Gated :
    /\ p # o
    /\ admitted[p] = "yes" /\ result[p] = "success"
    /\ admitted[o] = "yes" /\ released[o]
    /\ result[o] \notin {"none", "success"}
    /\ reserved_key = req[p].seat_count + req[o].seat_count

\* Caller p holds an admission whose booking has not ended, or has failed
\* and is not yet released.
InFlight(p) ==
  /\ admitted[p] = "yes"
  /\ \/ pc[p] # "done"
     \/ result[p] # "success" /\ ~released[p]

\* C28: sync bounds drift.  When the available counter holds the committed
\* available_seats r, as sync leaves it, and no admitted booking is in
\* flight, an admit for q seats made with the counter store reachable
\* returns true exactly when q <= r.
C28_SyncBoundsDrift ==
  [][\A p \in Gated :
       (/\ AdmitStep(p)
        /\ redis_up
        /\ seats_key = event.available_seats
        /\ \A o \in Gated : ~InFlight(o))
         => (admitted'[p] = "yes" <=> req'[p].seat_count <= event.available_seats)]_vars

\* C29: the reserved counter stays non-negative, whatever the sequence of
\* admit and release calls and of counter-store outages.
C29_ReservedNonNegative == reserved_key >= 0

\* C30: no stale listing survives an invalidation.  Once a booking, the only
\* write so far, has committed and its invalidation pass has completed, no
\* cached listing holds an available_seats other than the one it wrote,
\* however a listing request was interleaved with it.
C30_NoStaleListingSurvives ==
  \A p \in Writers :
    (/\ pc[p] = "done"
     /\ result[p] = "success"
     /\ \A o \in Writers \ {p} : pc[o] = "idle")
      => \A k \in Pages : cache[k] \in {NoEntry, event.available_seats}

\* ---------------------------------------------- the simulated systems
\* The experiments run in memory: no request has reached the backend.
NoBackend ==
  /\ event = NoRow
  /\ bookings = <<>>
  /\ IdleProcs
  /\ pc = [p \in AllProcs |-> "idle"]
  /\ req = [p \in AllProcs |-> NoReq]
  /\ ColdCache
  /\ NoGate

backendVars == <<coreVars, cacheVars, gateVars>>

\* __init__(total_seats) of the three simulated systems: every seat is
\* available, nothing is reserved, queued or counted.
Constructed(s) ==
  /\ total_seats = s
  /\ available_seats = s
  /\ reserved_seats = 0
  /\ queue = <<>>
  /\ submitted = <<>>
  /\ worker_item = 0
  /\ db_operations = 0
  /\ result_future = [u \in SimUsers |-> "none"]
  /\ sim_pc = [u \in SimUsers |-> "idle"]
  /\ current_seats = [u \in SimUsers |-> 0]
  /\ returned = [u \in SimUsers |-> "none"]
  /\ successful = 0
  /\ conflicts = 0
  /\ rejected = 0

InitSim == NoBackend /\ \E s \in 1..MaxSimSeats : Constructed(s)

\* The call of user u returns r.
Return(u, r) ==
  /\ returned' = [returned EXCEPT ![u] = r]
  /\ sim_pc' = [sim_pc EXCEPT ![u] = "done"]

\* --- MockBookingSystem.book_seat_broken
\* Mutant: the check looks at the seats available now.
BrokenCheckNow(read, now) == now > 0

\* `if current_seats > 0`: the check looks at the value read before the
\* suspension.
BrokenCheck(read, now) == read > 0

\* current_seats = self.event.available_seats, then the call suspends in
\* asyncio.sleep.
BookSeatBrokenRead(u) ==
  /\ sim_pc[u] = "idle"
  /\ current_seats' = [current_seats EXCEPT ![u] = available_seats]
  /\ sim_pc' = [sim_pc EXCEPT ![u] = "suspended"]
  /\ UNCHANGED <<backendVars, total_seats, available_seats, reserved_seats,
                 queue, submitted, worker_item, db_operations, result_future,
                 returned, successful, conflicts, rejected>>

\* The call resumes: check of the value it read, unconditional decrement of
\* the current one.
BookSeatBrokenUpdate(u) ==
  /\ sim_pc[u] = "suspended"
  /\ IF BrokenCheck(current_seats[u], available_seats)
       THEN /\ available_seats' = available_seats - 1
            /\ successful' = successful + 1
            /\ Return(u, "true")
            /\ UNCHANGED conflicts
       ELSE /\ conflicts' = conflicts + 1
            /\ Return(u, "false")
            /\ UNCHANGED <<available_seats, successful>>
  /\ UNCHANGED <<backendVars, total_seats, reserved_seats, queue, submitted,
                 worker_item, db_operations, result_future, current_seats,
                 rejected>>

NextBroken == \E u \in SimUsers : BookSeatBrokenRead(u) \/ BookSeatBrokenUpdate(u)

SpecBroken == InitSim /\ [][NextBroken]_vars

\* --- QueueBasedBookingSystem
\* Mutant: the worker takes the newest item.
QueueGetNewest(q) == [item |-> q[Len(q)], rest |-> SubSeq(q, 1, Len(q) - 1)]

\* asyncio.Queue.get: the oldest item leaves the queue.
QueueGet(q) == [item |-> Head(q), rest |-> Tail(q)]

\* asyncio.Queue.put on the unbounded queue: the item goes to the end.
QueuePut(q, item) == Append(q, item)

\* book_seat up to `await result_future`: a new Future goes into the queue
\* with the user_id.
BookSeatPut(u) ==
  /\ sim_pc[u] = "idle"
  /\ result_future' = [result_future EXCEPT ![u] = "pending"]
  /\ queue' = QueuePut(queue, u)
  /\ submitted' = Append(submitted, u)
  /\ sim_pc' = [sim_pc EXCEPT ![u] = "waiting"]
  /\ UNCHANGED <<backendVars, total_seats, available_seats, reserved_seats,
                 worker_item, db_operations, current_seats, returned,
                 successful, conflicts, rejected>>

\* start_worker, one turn of the loop up to its sleep: the worker waits in
\* queue.get until there is an item, takes it and counts a DB operation.
StartWorkerGet ==
  /\ worker_item = 0
  /\ queue # <<>>
  /\ worker_item' = QueueGet(queue).item
  /\ queue' = QueueGet(queue).rest
  /\ db_operations' = db_operations + 1
  /\ UNCHANGED <<backendVars, total_seats, available_seats, reserved_seats,
                 submitted, result_future, sim_pc, current_seats, returned,
                 successful, conflicts, rejected>>

\* start_worker after the sleep: it decides the item it holds and sets the
\* result of that item's Future.
StartWorkerDecide ==
  /\ worker_item # 0
  /\ IF available_seats > 0
       THEN /\ available_seats' = available_seats - 1
            /\ result_future' = [result_future EXCEPT ![worker_item] = "true"]
       ELSE /\ result_future' = [result_future EXCEPT ![worker_item] = "false"]
            /\ UNCHANGED available_seats
  /\ worker_item' = 0
  /\ UNCHANGED <<backendVars, total_seats, reserved_seats, queue, submitted,
                 db_operations, sim_pc, current_seats, returned, successful,
                 conflicts, rejected>>

\* book_seat after `await result_future`: the call counts its outcome and
\* returns it.
BookSeatResolved(u) ==
  /\ sim_pc[u] = "waiting"
  /\ result_future[u] \in {"true", "false"}
  /\ IF result_future[u] = "true"
       THEN successful' = successful + 1 /\ UNCHANGED conflicts
       ELSE conflicts' = conflicts + 1 /\ UNCHANGED successful
  /\ Return(u, result_future[u])
  /\ UNCHANGED <<backendVars, total_seats, available_seats, reserved_seats,
                 queue, submitted, worker_item, db_operations, result_future,
                 current_seats, rejected>>

NextQueue ==
  \/ \E u \in SimUsers : BookSeatPut(u)
  \/ StartWorkerGet
  \/ StartWorkerDecide
  \/ \E u \in SimUsers : BookSeatResolved(u)

SpecQueue == InitSim /\ [][NextQueue]_vars

\* The worker task runs for as long as calls are pending, and the event
\* loop resumes a call whose Future has its result.
FairQueue ==
  /\ SpecQueue
  /\ WF_vars(StartWorkerGet)
  /\ WF_vars(StartWorkerDecide)
  /\ \A u \in SimUsers : WF_vars(BookSeatResolved(u))

\* --- AdmissionControlBooking
\* Mutant: the admission check leaves the pending reservations out.
AdmissionRejectsSoldOut(avail, resv) == avail <= 0

\* `if self.available_seats - self.reserved_seats <= 0`: fail fast.
AdmissionRejects(avail, resv) == avail - resv <= 0

\* book_seat, step 1, under the lock: the admission check, then either the
\* fast rejection or a temporary reservation.
BookSeatAdmission(u) ==
  /\ sim_pc[u] = "idle"
  /\ IF AdmissionRejects(available_seats, reserved_seats)
       THEN /\ rejected' = rejected + 1
            /\ Return(u, "false")
            /\ UNCHANGED reserved_seats
       ELSE /\ reserved_seats' = reserved_seats + 1
            /\ sim_pc' = [sim_pc EXCEPT ![u] = "reserved"]
            /\ UNCHANGED <<rejected, returned>>
  /\ UNCHANGED <<backendVars, total_seats, available_seats, queue, submitted,
                 worker_item, db_operations, result_future, current_seats,
                 successful, conflicts>>

\* book_seat, step 2, after the sleep and under the lock: the reservation is
\* given back, with a conflict when no seat is left and with a seat taken
\* otherwise.
BookSeatInDb(u) ==
  /\ sim_pc[u] = "reserved"
  /\ db_operations' = db_operations + 2
  /\ reserved_seats' = reserved_seats - 1
  /\ IF available_seats <= 0
       THEN /\ conflicts' = conflicts + 1
            /\ Return(u, "false")
            /\ UNCHANGED <<available_seats, successful>>
       ELSE /\ available_seats' = available_seats - 1
            /\ successful' = successful + 1
            /\ Return(u, "true")
            /\ UNCHANGED conflicts
  /\ UNCHANGED <<backendVars, total_seats, queue, submitted, worker_item,
                 result_future, current_seats, rejected>>

NextAdmission == \E u \in SimUsers : BookSeatAdmission(u) \/ BookSeatInDb(u)

SpecAdmission == InitSim /\ [][NextAdmission]_vars

\* ------------------------------------------------------------ C31 .. C36
\* C31: cache failures are not fatal.  With the cache store disabled or
\* failing, get_cached_events returns None (the listing goes on to the
\* durable store), set_cached_events and invalidate_event_cache return
\* without a change to the cache, the listing answers with the
\* available_seats it read from the durable store, and the booking or
\* cancellation goes on to its commit and ends with the outcome of its
\* database statements.
C31_CacheFailuresNotFatal ==
  [][/\ \A l \in Listers :
          /\ (list_pc[l] = "idle" /\ list_pc'[l] # "idle" /\ ~cache_up)
               => list_pc'[l] = "query"
          /\ (list_pc[l] = "query" /\ list_pc'[l] # "query")
               => /\ list_pc'[l] = "set"
                  /\ list_data'[l] = event.available_seats
          /\ (list_pc[l] = "set" /\ list_pc'[l] # "set")
               => /\ list_pc'[l] = "miss"
                  /\ list_data'[l] = list_data[l]
                  /\ ~cache_up => cache' = cache
     /\ \A p \in Writers :
          /\ (pc[p] = "invalidate" /\ pc'[p] # "invalidate")
               => /\ pc'[p] = "commit"
                  /\ result'[p] = result[p]
                  /\ ~cache_up => cache' = cache
          /\ (pc[p] = "commit" /\ pc'[p] # "commit")
               => /\ pc'[p] = "done"
                  /\ result'[p] \in {"success", "cancelled"}
                  /\ event' = tx_event[p]]_vars

\* C31 witness: with the cache store down, a booking has committed although
\* its invalidation pass deleted nothing, and a listing of a page that is
\* still cached with the old number was answered from the durable store.
C31_Witness ==
  \E p \in Writers, l \in Listers :
    /\ ~cache_up
    /\ result[p] = "success" /\ keys_deleted[p] = 0
    /\ list_pc[l] = "miss"
    /\ list_data[l] = event.available_seats
    /\ cache[list_key[l]] \notin {NoEntry, list_data[l]}

\* C32: single-resource reads are real-time.  A single-event read neither
\* reads nor writes the cache: whatever bookings and cancellations came
\* before and whatever the cached listings hold, its response carries the
\* available_seats committed at the moment of the read.
C32_SingleReadsRealTime ==
  [][\A l \in Listers :
       (list_pc[l] = "idle" /\ list_pc'[l] = "single")
         => /\ list_data'[l] = event.available_seats
            /\ cache' = cache]_vars

\* C32 witness: after a booking that committed while the cache store was
\* down, every page is cached with the old number, and a single-event read
\* returned the committed one.
C32_Witness ==
  \E l \in Listers, p \in Writers :
    /\ result[p] = "success"
    /\ list_pc[l] = "single"
    /\ list_data[l] = event.available_seats
    /\ \A k \in Pages : cache[k] \notin {NoEntry, event.available_seats}

\* C33: initial resource state.  A newly created event has available_seats
\* equal to its seat_count, a seat_count above 0 and version 1; and no step
\* of book_seats or cancel_booking changes seat_count, neither in the
\* committed row nor in the row a request has written and not yet
\* committed.
C33_InitialResourceState ==
  /\ event.seat_count > 0
  /\ event.available_seats = event.seat_count
  /\ event.version = 1
  /\ [][/\ event'.seat_count = event.seat_count
        /\ \A p \in Procs :
             tx_event'[p] # NoRow => tx_event'[p].seat_count = event.seat_count]_vars

\* C33 witness: an event created with two seats has gone through a
\* committed booking of both seats and a committed cancellation of it; its
\* seat_count is still two.
C33_Witness ==
  /\ event.seat_count = MaxSeats
  /\ event.version = 3
  /\ event.available_seats = MaxSeats
  /\ \E i \in 1..Len(bookings) :
       bookings[i].status = "cancelled" /\ bookings[i].seat_count = MaxSeats

\* C34: the unlocked variant oversells.  book_seat_broken decides on the
\* value it read before its suspension and then decrements whatever
\* available_seats holds: a call returns true exactly when it read more
\* than 0, every true took one seat from available_seats with no floor, and
\* so the calls that all read before the first write all succeed, with more
\* successes than total_seats and available_seats below 0 (C34_Witness).
C34_BrokenOversells ==
  /\ available_seats = total_seats - successful
  /\ successful = Cardinality({u \in SimUsers : returned[u] = "true"})
  /\ conflicts = Cardinality({u \in SimUsers : returned[u] = "false"})
  /\ \A u \in SimUsers :
       sim_pc[u] = "done" => (returned[u] = "true" <=> current_seats[u] > 0)
  /\ (\A u \in SimUsers : sim_pc[u] = "done" /\ current_seats[u] = total_seats)
       => /\ successful = NumSimUsers
          /\ available_seats = total_seats - NumSimUsers

\* C34 witness: every call has returned, the successful bookings outnumber
\* the seats and available_seats is negative.
C34_Witness ==
  /\ \A u \in SimUsers : sim_pc[u] = "done"
  /\ successful > total_seats
  /\ available_seats < 0

\* Number of items the worker has decided.
Decided == db_operations - (IF worker_item # 0 THEN 1 ELSE 0)

\* The queue-based variant keeps the order of submission: the worker holds
\* or has decided the first db_operations items put, the queue holds the
\* others in their order, an item is decided true exactly when it is among
\* the first total_seats, and available_seats is what those left.
C35_QueueOrderSafe ==
  /\ db_operations <= Len(submitted)
  /\ queue = SubSeq(submitted, db_operations + 1, Len(submitted))
  /\ worker_item # 0 => worker_item = submitted[db_operations]
  /\ \A i \in 1..Len(submitted) :
       /\ result_future[submitted[i]] # "pending" <=> i <= Decided
       /\ i <= Decided => (result_future[submitted[i]] = "true" <=> i <= total_seats)
  /\ available_seats = total_seats - Min(Decided, total_seats)
  /\ available_seats >= 0
  /\ \A u \in SimUsers : returned[u] # "none" => returned[u] = result_future[u]
  /\ (\A u \in SimUsers : sim_pc[u] = "done")
       => /\ successful = Min(NumSimUsers, total_seats)
          /\ conflicts = NumSimUsers - successful

\* C35: queue-based variant.  With the single worker running, every
\* book_seat call that has put its request is eventually resolved and
\* returns; the requests are decided in queue order; of N requests against
\* S seats exactly min(N, S) succeed, and available_seats is never negative.
C35_QueueBased ==
  /\ []C35_QueueOrderSafe
  /\ \A u \in SimUsers : (sim_pc[u] = "waiting") ~> (sim_pc[u] = "done")

\* C35 witness: more calls than seats were submitted, in an order other
\* than that of the user_ids; all have returned, the first total_seats of
\* the submission order with true and the last one with false.
C35_Witness ==
  /\ \A u \in SimUsers : sim_pc[u] = "done"
  /\ total_seats < NumSimUsers
  /\ submitted[1] # 1
  /\ returned[submitted[1]] = "true"
  /\ returned[submitted[NumSimUsers]] = "false"
  /\ successful = total_seats
  /\ available_seats = 0

\* C36: admitted implies booked in the simulated gate.  In every reachable
\* state of AdmissionControlBooking 0 <= reserved_seats <= available_seats,
\* with one reservation per call between its two steps; so a call that
\* passed the admission check finds a seat in step 2: the conflict branch is
\* never taken, a call returns false only by the fast rejection, and when
\* all calls are done exactly min(users, total_seats) have succeeded.
C36_AdmittedImpliesBooked ==
  /\ reserved_seats >= 0
  /\ reserved_seats <= available_seats
  /\ reserved_seats = Cardinality({u \in SimUsers : sim_pc[u] = "reserved"})
  /\ conflicts = 0
  /\ rejected = Cardinality({u \in SimUsers : returned[u] = "false"})
  /\ successful = Cardinality({u \in SimUsers : returned[u] = "true"})
  /\ available_seats = total_seats - successful
  /\ (\A u \in SimUsers : sim_pc[u] = "done")
       => successful = Min(NumSimUsers, total_seats)

\* C36 witness: with fewer seats than users every call is done; each
\* admitted call went through step 2 and took its seat, the others were
\* rejected in step 1, and nothing is left reserved.
C36_Witness ==
  /\ \A u \in SimUsers : sim_pc[u] = "done"
  /\ total_seats < NumSimUsers
  /\ successful = total_seats
  /\ rejected = NumSimUsers - total_seats
  /\ db_operations = 2 * total_seats
  /\ available_seats = 0 /\ reserved_seats = 0

====
